---- MODULE Spec2Model ----
(***************************************************************************)
(* State-machine model of the MSP430 firmware in this repository:          *)
(*   - msp430-adc-pwm-led-dimmer: main.c (control loop), adc.c (ADC12      *)
(*     interrupt, single-slot mailbox, poll_adc_value), pwm.c              *)
(*     (set_duty_cycle), uart.c (uart_put_uint16);                         *)
(*   - gpio-input-state-machine: timer.c (periodic tick, consume_tick).    *)
(*                                                                         *)
(* The CPU is modelled at the level the code depends on: the status        *)
(* register bits GIE and CPUOFF (LPM0_bits), the copy of SR that interrupt *)
(* entry pushes on the stack and RETI restores, and                        *)
(* __bic_SR_register_on_exit, which clears bits in that stacked copy.      *)
(* The foreground is interleaved with the interrupt handler at the         *)
(* granularity of the C statements; a handler runs to completion (GIE is   *)
(* cleared on interrupt entry).                                            *)
(***************************************************************************)
EXTENDS Integers, Sequences, FiniteSets, TLC

\* ------------------------------------------------------------------ bounds
\* Largest number of publications by ADC12_interrupt that a run explores.
MaxPub == 3
\* Largest number of tick interrupts that a run explores.
MaxTicks == 3

\* --------------------------------------------------------- program constants
ADC_CHANGE_THRESHHOLD == 100
\* #define TIMER_CCR0_VALUE ((uint16_t)320) in pwm.c
TIMER_CCR0_VALUE == 320
\* full scale of the 12-bit converter, the divisor 4095.0f of main.c
ADC_FULL_SCALE == 4095
\* ADC12IV value for "ADC12MEM0 interrupt flag" tested by the handler
ADC12IV_ADC12IFG0 == 6
\* another ADC12IV code (ADC12MEM overflow), which the handler ignores
ADC12IV_ADC12OVIFG == 2
\* sizeof buf in uart_put_uint16
UART_BUF_SIZE == 6

UINT16 == 65536

\* Raw conversion results the 12-bit converter delivers (ADC12MEM0). They hold
\* the pairs at distance 100 (0/100: noise), 101 (0/101: published), 49 and
\* 50 (noise) and the full-scale value.
RawSamples == {0, 100, 101, 150, 4095}

\* 16-bit values at the ends and in the middle of the range of uint16_t, with
\* pairs at distance 100 and 101.
Raw16Samples == {0, 100, 101, 32768, 65435, 65535}

\* Values of the ADC12IV register the handler may read.
IVCodes == {ADC12IV_ADC12IFG0, ADC12IV_ADC12OVIFG}

\* The value of an object that has not been written yet.
Undef == -1

VARIABLES
    \* ---- CPU
    SR,             \* status register: [GIE, CPUOFF]; CPUOFF = LPM0_bits
    saved_SR,       \* SR as stacked by interrupt entry (meaningful in a handler)
    \* ---- main.c
    main_pc,        \* position of main()
    adc_value,      \* main's local uint16_t adc_value
    \* ---- peripherals written by the init functions
    wdt_held,       \* WDTCTL = WDTPW | WDTHOLD done
    TA0CCR0,        \* PWM period register
    TA0CCR1,        \* PWM compare register
    uart_ready,     \* uart_init done
    uart_tx,        \* the characters of the last line sent on the UART
    ADC12IE0,       \* ADC12MEM0 interrupt enabled and conversions running
    \* ---- adc.c
    published,      \* static volatile bool published
    publish_value,  \* static volatile uint16_t publish_value
    last_published, \* static uint16_t last_published (in ADC12_interrupt)
    isr_pc,         \* position of ADC12_interrupt ("none": not executing)
    iv,             \* value read from ADC12IV by the running handler
    raw,            \* the handler's local uint16_t raw
    \* ---- timer.c (gpio-input-state-machine)
    tick_flag,      \* static volatile bool tick_flag
    tick_CCR0,      \* TA0CCR0 as programmed by timer_init of timer.c
    tick_CCIE,      \* TA0CCTL0 CCIE: the compare interrupt is enabled
    tick_MC,        \* TA0CTL MC__UP: the timer runs
    tick_SR,        \* status register of the CPU running the tick program
    tick_saved_SR,  \* SR stacked on entry of timerA0Elapsed
    tick_isr_pc,    \* position of timerA0Elapsed
    tick_pc,        \* position of the foreground of the tick program
    tick_ret,       \* last value returned by consume_tick
    \* ---- history (observation only, never read by the program)
    h_entry,        \* mailbox and SR as they were when the running handler was entered
    h_isr_pub,      \* the running handler has published
    n_pub,          \* number of publications so far
    n_true,         \* number of true returns of poll_adc_value so far
    unpolled,       \* a value was published and poll_adc_value has not been called since
    pubs_since_ret, \* publications since poll_adc_value last returned (0, 1, 2 = two or more)
    pubs_at_call,   \* pubs_since_ret as it was when poll_adc_value was last called
    poll_ret,       \* last return value of poll_adc_value ("none" before the first)
    last_returned,  \* value delivered by the last true return of poll_adc_value
    copied_cur,     \* the most recent publication has been copied by a poll
    returned_cur,   \* the most recent publication has been returned by a poll
    n_ticks,        \* number of tick interrupts so far
    n_consumed,     \* number of true returns of consume_tick so far
    ticks_since_ret,\* ticks since consume_tick last returned (0, 1, 2 = two or more)
    ticks_at_call,  \* ticks_since_ret as it was when consume_tick was last called
    tick_since_true,\* a tick has fired since the last true return of consume_tick
    \* ---- arguments of the last evaluations (observation only)
    duty_num,       \* numerator of the fraction last passed to set_duty_cycle
    duty_den,       \* its denominator (0: set_duty_cycle has not been called)
    tick_ms,        \* argument of the last TIMER_CCR0_FROM_MS (0: none yet)
    tick_CCR0_32,   \* its 32-bit value before the cast to uint16_t
    \* ---- the control loop and its deliveries (observation only)
    n_wakes,        \* handler returns that took the CPU out of LPM0
    n_duty,         \* calls of set_duty_cycle made by the control loop
    polls_since_sleep, \* calls of poll_adc_value since the last LPM0 entry (max 2)
    prev_returned,  \* the value returned by the successful poll before the last
    ret_seq,        \* publication number of the value last returned
    prev_ret_seq,   \* publication number of prev_returned
    copied_seq      \* publication number of the value last copied out

cpu_vars  == <<SR, saved_SR>>
main_vars == <<main_pc, adc_value>>
hw_vars   == <<wdt_held, TA0CCR0, TA0CCR1, uart_ready, uart_tx, ADC12IE0>>
adc_vars  == <<published, publish_value, last_published, isr_pc, iv, raw>>
tick_hist == <<ticks_since_ret, ticks_at_call, tick_since_true>>
tick_vars == <<tick_flag, tick_CCR0, tick_CCIE, tick_MC, tick_SR, tick_saved_SR,
               tick_isr_pc, tick_pc, tick_ret, n_ticks, n_consumed, tick_hist>>
hist_vars == <<h_entry, h_isr_pub, n_pub, n_true, unpolled, pubs_since_ret,
               pubs_at_call, poll_ret, last_returned, copied_cur, returned_cur>>
pwm_in == <<duty_num, duty_den>>
ccr_in == <<tick_ms, tick_CCR0_32>>
loop_hist == <<n_wakes, n_duty, polls_since_sleep>>
deliv_hist == <<prev_returned, ret_seq, prev_ret_seq, copied_seq>>
vars == <<cpu_vars, main_vars, hw_vars, adc_vars, tick_vars, hist_vars, pwm_in,
          ccr_in, loop_hist, deliv_hist>>

\* ------------------------------------------------------------ pure functions
Min(a, b) == IF a < b THEN a ELSE b

\* Mutant of AbsDiff16: the subtraction without the comparison, which wraps
\* when raw is below last.
AbsDiff16_unordered(r, last) == (r - last) % UINT16

\* uint16_t diff = (raw > last) ? (raw - last) : (last - raw), in 16-bit
\* unsigned arithmetic.
AbsDiff16(r, last) ==
    IF r > last THEN (r - last) % UINT16 ELSE (last - r) % UINT16

\* if (diff > ADC_CHANGE_THRESHHOLD)
Qualifies(r, last) == AbsDiff16(r, last) > ADC_CHANGE_THRESHHOLD

\* Mutant of set_duty_cycle: the upper clamp (d > 1.0f) is missing.
set_duty_cycle_no_upper_clamp(num, den) ==
    LET n == IF num < 0 THEN 0 ELSE num
    IN  (TIMER_CCR0_VALUE * n) \div den

\* Mutant of set_duty_cycle: neither clamp is applied.
set_duty_cycle_no_clamp(num, den) == (TIMER_CCR0_VALUE * num) \div den

\* Mutant of set_duty_cycle: the scale is one count short of the period.
set_duty_cycle_short_period(num, den) ==
    LET n == IF num < 0 THEN 0 ELSE IF num > den THEN den ELSE num
    IN  ((TIMER_CCR0_VALUE - 1) * n) \div den

\* set_duty_cycle(num/den): clamp to [0, 1], multiply by TIMER_CCR0_VALUE and
\* convert to uint16_t, which discards the fractional part. den > 0.
set_duty_cycle(num, den) ==
    LET n == IF num < 0 THEN 0 ELSE IF num > den THEN den ELSE num
    IN  (TIMER_CCR0_VALUE * n) \div den

DigitChar == <<"0", "1", "2", "3", "4", "5", "6", "7", "8", "9">>

\* The decimal digits of n >= 0 as characters, most significant first.
RECURSIVE Digits(_)
Digits(n) ==
    IF n < 10 THEN <<DigitChar[n + 1]>>
    ELSE Append(Digits(n \div 10), DigitChar[(n % 10) + 1])

\* snprintf(buf, sizeof buf, "%d", v) with a 16-bit int: v is printed as a
\* signed int and the text is cut to sizeof buf - 1 characters.
uart_put_uint16(v) ==
    LET s    == IF v < 32768 THEN v ELSE v - UINT16
        text == IF s < 0 THEN <<"-">> \o Digits(-s) ELSE Digits(s)
    IN  SubSeq(text, 1, Min(Len(text), UART_BUF_SIZE - 1))

NoSR == [GIE |-> FALSE, CPUOFF |-> FALSE]
NoEntry == [published |-> FALSE, publish_value |-> 0, last_published |-> 0,
            CPUOFF |-> FALSE]

\* ---------------------------------------------------------------------- Init
Init ==
    /\ SR = NoSR
    /\ saved_SR = NoSR
    /\ main_pc = "wdt"
    /\ adc_value = Undef
    /\ wdt_held = FALSE
    /\ TA0CCR0 = 0
    /\ TA0CCR1 = 0
    /\ uart_ready = FALSE
    /\ uart_tx = <<>>
    /\ ADC12IE0 = FALSE
    /\ published = FALSE
    /\ publish_value = 0
    /\ last_published = 0
    /\ isr_pc = "none"
    /\ iv = 0
    /\ raw = 0
    /\ tick_flag = FALSE
    /\ tick_CCR0 = 0
    /\ tick_CCIE = FALSE
    /\ tick_MC = FALSE
    /\ tick_SR = NoSR
    /\ tick_saved_SR = NoSR
    /\ tick_isr_pc = "none"
    /\ tick_pc = "timer_init"
    /\ tick_ret = "none"
    /\ h_entry = NoEntry
    /\ h_isr_pub = FALSE
    /\ n_pub = 0
    /\ n_true = 0
    /\ unpolled = FALSE
    /\ pubs_since_ret = 0
    /\ pubs_at_call = 0
    /\ poll_ret = "none"
    /\ last_returned = Undef
    /\ copied_cur = FALSE
    /\ returned_cur = FALSE
    /\ n_ticks = 0
    /\ n_consumed = 0
    /\ ticks_since_ret = 0
    /\ ticks_at_call = 0
    /\ tick_since_true = FALSE
    /\ duty_num = 0
    /\ duty_den = 0
    /\ tick_ms = 0
    /\ tick_CCR0_32 = <<0, 0>>
    /\ n_wakes = 0
    /\ n_duty = 0
    /\ polls_since_sleep = 0
    /\ prev_returned = Undef
    /\ ret_seq = 0
    /\ prev_ret_seq = 0
    /\ copied_seq = 0

\* The foreground executes: the CPU is on and no handler is running.
MainRuns == ~SR.CPUOFF /\ isr_pc = "none"

\* ------------------------------------------------------------- main: startup
\* Mutant of main_wdt: interrupts are enabled together with the watchdog
\* hold, before any peripheral is configured.
main_wdt_enables_interrupts ==
    /\ MainRuns /\ main_pc = "wdt"
    /\ wdt_held' = TRUE
    /\ SR' = [SR EXCEPT !.GIE = TRUE]
    /\ main_pc' = "pin_init"
    /\ UNCHANGED <<saved_SR, adc_value, TA0CCR0, TA0CCR1, uart_ready, uart_tx,
                   ADC12IE0, adc_vars, tick_vars, hist_vars, pwm_in, ccr_in,
                   loop_hist, deliv_hist>>

\* WDTCTL = WDTPW | WDTHOLD;
main_wdt ==
    /\ MainRuns /\ main_pc = "wdt"
    /\ wdt_held' = TRUE
    /\ main_pc' = "pin_init"
    /\ UNCHANGED <<cpu_vars, adc_value, TA0CCR0, TA0CCR1, uart_ready, uart_tx,
                   ADC12IE0, adc_vars, tick_vars, hist_vars>>
    /\ UNCHANGED <<pwm_in, ccr_in, loop_hist, deliv_hist>>

\* pin_init();
pin_init ==
    /\ MainRuns /\ main_pc = "pin_init"
    /\ main_pc' = "timer_init"
    /\ UNCHANGED <<cpu_vars, adc_value, hw_vars, adc_vars, tick_vars, hist_vars>>
    /\ UNCHANGED <<pwm_in, ccr_in, loop_hist, deliv_hist>>

\* timer_init(); of pwm.c
timer_init ==
    /\ MainRuns /\ main_pc = "timer_init"
    /\ TA0CCR0' = TIMER_CCR0_VALUE
    /\ TA0CCR1' = 0
    /\ main_pc' = "set_duty"
    /\ UNCHANGED <<cpu_vars, adc_value, wdt_held, uart_ready, uart_tx, ADC12IE0,
                   adc_vars, tick_vars, hist_vars>>
    /\ UNCHANGED <<pwm_in, ccr_in, loop_hist, deliv_hist>>

\* set_duty_cycle(0.9f);
main_set_duty_initial ==
    /\ MainRuns /\ main_pc = "set_duty"
    /\ TA0CCR1' = set_duty_cycle(9, 10)
    /\ main_pc' = "uart_init"
    /\ UNCHANGED <<cpu_vars, adc_value, wdt_held, TA0CCR0, uart_ready, uart_tx,
                   ADC12IE0, adc_vars, tick_vars, hist_vars>>
    /\ duty_num' = 9 /\ duty_den' = 10
    /\ UNCHANGED <<ccr_in, loop_hist, deliv_hist>>

\* The fractions the control loop passes, (float) adc_value / 4095.0f, for the
\* conversion results of RawSamples and every fifth 12-bit value.
DutyOfRaw ==
    {<<r, ADC_FULL_SCALE>> :
        r \in RawSamples \cup {x \in 0..ADC_FULL_SCALE : x % 5 = 0}}

\* Fractions in tenths from -1.0 to 2.0, which include values outside [0, 1].
DutyTenths == {<<k, 10>> : k \in -10..20}

DutyFractions == DutyOfRaw \cup DutyTenths

\* set_duty_cycle(d) called with any of the fractions above, once the PWM
\* timer is configured.
set_duty_cycle_call ==
    /\ MainRuns /\ main_pc = "set_duty"
    /\ \E d \in DutyFractions :
          /\ TA0CCR1' = set_duty_cycle(d[1], d[2])
          /\ duty_num' = d[1]
          /\ duty_den' = d[2]
    /\ UNCHANGED <<cpu_vars, main_vars, wdt_held, TA0CCR0, uart_ready, uart_tx,
                   ADC12IE0, adc_vars, tick_vars, hist_vars, ccr_in,
                   loop_hist, deliv_hist>>

\* uart_init();
uart_init ==
    /\ MainRuns /\ main_pc = "uart_init"
    /\ uart_ready' = TRUE
    /\ main_pc' = "adc_init"
    /\ UNCHANGED <<cpu_vars, adc_value, wdt_held, TA0CCR0, TA0CCR1, uart_tx,
                   ADC12IE0, adc_vars, tick_vars, hist_vars>>
    /\ UNCHANGED <<pwm_in, ccr_in, loop_hist, deliv_hist>>

\* adc_init(); enables the ADC12MEM0 interrupt and starts the conversions
adc_init ==
    /\ MainRuns /\ main_pc = "adc_init"
    /\ ADC12IE0' = TRUE
    /\ main_pc' = "puts"
    /\ UNCHANGED <<cpu_vars, adc_value, wdt_held, TA0CCR0, TA0CCR1, uart_ready,
                   uart_tx, adc_vars, tick_vars, hist_vars>>
    /\ UNCHANGED <<pwm_in, ccr_in, loop_hist, deliv_hist>>

\* uart_puts("Initialized\n");
main_puts ==
    /\ MainRuns /\ main_pc = "puts"
    /\ uart_tx' = <<"Initialized">>
    /\ main_pc' = "gie"
    /\ UNCHANGED <<cpu_vars, adc_value, wdt_held, TA0CCR0, TA0CCR1, uart_ready,
                   ADC12IE0, adc_vars, tick_vars, hist_vars>>
    /\ UNCHANGED <<pwm_in, ccr_in, loop_hist, deliv_hist>>

\* __bis_SR_register(GIE);
main_gie ==
    /\ MainRuns /\ main_pc = "gie"
    /\ SR' = [SR EXCEPT !.GIE = TRUE]
    /\ main_pc' = "lpm0"
    /\ UNCHANGED <<saved_SR, adc_value, hw_vars, adc_vars, tick_vars, hist_vars>>
    /\ UNCHANGED <<pwm_in, ccr_in, loop_hist, deliv_hist>>

\* ---------------------------------------------------------------- main: loop
\* _bis_SR_register(LPM0_bits | GIE); uint16_t adc_value;
\* The CPU halts with the program counter at the call of poll_adc_value.
main_enter_lpm0 ==
    /\ MainRuns /\ main_pc = "lpm0"
    /\ SR' = [GIE |-> TRUE, CPUOFF |-> TRUE]
    /\ adc_value' = Undef
    /\ main_pc' = "poll_test"
    /\ UNCHANGED <<saved_SR, hw_vars, adc_vars, tick_vars, hist_vars>>
    /\ polls_since_sleep' = 0
    /\ UNCHANGED <<pwm_in, ccr_in, n_wakes, n_duty, deliv_hist>>

\* poll_adc_value(&adc_value): if (!published) ... else return false;
poll_adc_value_test ==
    /\ MainRuns /\ main_pc = "poll_test"
    /\ pubs_at_call' = pubs_since_ret
    /\ unpolled' = FALSE
    /\ IF ~published
         THEN /\ main_pc' = "poll_copy"
              /\ UNCHANGED <<poll_ret, pubs_since_ret>>
         ELSE /\ main_pc' = "lpm0"
              /\ poll_ret' = "false"
              /\ pubs_since_ret' = 0
    /\ UNCHANGED <<cpu_vars, adc_value, hw_vars, adc_vars, tick_vars, h_entry,
                   h_isr_pub, n_pub, n_true, last_returned, copied_cur,
                   returned_cur>>
    /\ polls_since_sleep' = Min(polls_since_sleep + 1, 2)
    /\ UNCHANGED <<pwm_in, ccr_in, n_wakes, n_duty, deliv_hist>>

\* *external_value = publish_value;
poll_adc_value_copy ==
    /\ MainRuns /\ main_pc = "poll_copy"
    /\ adc_value' = publish_value
    /\ copied_cur' = TRUE
    /\ main_pc' = "poll_mark"
    /\ UNCHANGED <<cpu_vars, hw_vars, adc_vars, tick_vars, h_entry, h_isr_pub,
                   n_pub, n_true, unpolled, pubs_since_ret, pubs_at_call,
                   poll_ret, last_returned, returned_cur>>
    /\ copied_seq' = n_pub
    /\ UNCHANGED <<pwm_in, ccr_in, loop_hist, prev_returned, ret_seq,
                   prev_ret_seq>>

\* published = true; return true;
poll_adc_value_mark ==
    /\ MainRuns /\ main_pc = "poll_mark"
    /\ published' = TRUE
    /\ poll_ret' = "true"
    /\ last_returned' = adc_value
    /\ returned_cur' = copied_cur
    /\ n_true' = n_true + 1
    /\ pubs_since_ret' = 0
    /\ main_pc' = "duty"
    /\ UNCHANGED <<cpu_vars, adc_value, hw_vars, publish_value, last_published,
                   isr_pc, iv, raw, tick_vars, h_entry, h_isr_pub, n_pub,
                   unpolled, pubs_at_call, copied_cur>>
    /\ prev_returned' = last_returned
    /\ prev_ret_seq' = ret_seq
    /\ ret_seq' = copied_seq
    /\ UNCHANGED <<pwm_in, ccr_in, loop_hist, copied_seq>>

\* float duty_cycle = (float) adc_value / 4095.0f; set_duty_cycle(duty_cycle);
main_set_duty ==
    /\ MainRuns /\ main_pc = "duty"
    /\ TA0CCR1' = set_duty_cycle(adc_value, ADC_FULL_SCALE)
    /\ main_pc' = "uart"
    /\ UNCHANGED <<cpu_vars, adc_value, wdt_held, TA0CCR0, uart_ready, uart_tx,
                   ADC12IE0, adc_vars, tick_vars, hist_vars>>
    /\ duty_num' = adc_value /\ duty_den' = ADC_FULL_SCALE
    /\ n_duty' = n_duty + 1
    /\ UNCHANGED <<ccr_in, n_wakes, polls_since_sleep, deliv_hist>>

\* Mutant of main_uart: the loop polls again instead of going back to sleep,
\* draining the mailbox.
main_uart_polls_again ==
    /\ MainRuns /\ main_pc = "uart"
    /\ uart_tx' = uart_put_uint16(adc_value)
    /\ main_pc' = "poll_test"
    /\ UNCHANGED <<cpu_vars, adc_value, wdt_held, TA0CCR0, TA0CCR1, uart_ready,
                   ADC12IE0, adc_vars, tick_vars, hist_vars>>
    /\ UNCHANGED <<pwm_in, ccr_in, loop_hist, deliv_hist>>

\* uart_put_uint16(adc_value); uart_puts("\n");
main_uart ==
    /\ MainRuns /\ main_pc = "uart"
    /\ uart_tx' = uart_put_uint16(adc_value)
    /\ main_pc' = "lpm0"
    /\ UNCHANGED <<cpu_vars, adc_value, wdt_held, TA0CCR0, TA0CCR1, uart_ready,
                   ADC12IE0, adc_vars, tick_vars, hist_vars>>
    /\ UNCHANGED <<pwm_in, ccr_in, loop_hist, deliv_hist>>

\* ----------------------------------------------------------- ADC12_interrupt
\* Interrupt entry: the conversion-complete interrupt is accepted when GIE and
\* ADC12IE0 are set. The CPU stacks SR and clears it (CPU on, GIE off).
ADC12_interrupt_entry ==
    /\ isr_pc = "none"
    /\ SR.GIE /\ ADC12IE0
    /\ n_pub < MaxPub
    /\ saved_SR' = SR
    /\ SR' = NoSR
    /\ isr_pc' = "iv"
    /\ h_entry' = [published |-> published, publish_value |-> publish_value,
                   last_published |-> last_published, CPUOFF |-> SR.CPUOFF]
    /\ h_isr_pub' = FALSE
    /\ UNCHANGED <<main_vars, hw_vars, published, publish_value, last_published,
                   iv, raw, tick_vars, n_pub, n_true, unpolled, pubs_since_ret,
                   pubs_at_call, poll_ret, last_returned, copied_cur,
                   returned_cur>>
    /\ UNCHANGED <<pwm_in, ccr_in, loop_hist, deliv_hist>>

\* if (ADC12IV == ADC12IV_ADC12IFG0) {
ADC12_interrupt_iv ==
    /\ isr_pc = "iv"
    /\ \E code \in IVCodes :
         /\ iv' = code
         /\ isr_pc' = IF code = ADC12IV_ADC12IFG0 THEN "sample" ELSE "reti"
    /\ UNCHANGED <<cpu_vars, main_vars, hw_vars, published, publish_value,
                   last_published, raw, tick_vars, hist_vars>>
    /\ UNCHANGED <<pwm_in, ccr_in, loop_hist, deliv_hist>>

\* uint16_t raw = ADC12MEM0; uint16_t diff = ...; if (diff > ADC_CHANGE_THRESHHOLD) {
\* with ADC12MEM0 holding one of the values of S.
ADC12_interrupt_sample_from(S) ==
    /\ isr_pc = "sample"
    /\ \E r \in S :
         /\ raw' = r
         /\ isr_pc' = IF Qualifies(r, last_published) THEN "w_last" ELSE "reti"
    /\ UNCHANGED <<cpu_vars, main_vars, hw_vars, published, publish_value,
                   last_published, iv, tick_vars, hist_vars>>
    /\ UNCHANGED <<pwm_in, ccr_in, loop_hist, deliv_hist>>

\* Mutant of ADC12_interrupt_sample: the wake request is issued for every
\* sample, also for one within the threshold.
ADC12_interrupt_sample_always_wakes ==
    /\ isr_pc = "sample"
    /\ \E r \in RawSamples :
         /\ raw' = r
         /\ isr_pc' = IF Qualifies(r, last_published) THEN "w_last" ELSE "wake"
    /\ UNCHANGED <<cpu_vars, main_vars, hw_vars, published, publish_value,
                   last_published, iv, tick_vars, hist_vars>>
    /\ UNCHANGED <<pwm_in, ccr_in, loop_hist, deliv_hist>>

\* The handler's read of a 12-bit conversion result.
ADC12_interrupt_sample == ADC12_interrupt_sample_from(RawSamples)

\* The handler's read when ADC12MEM0 may hold any 16-bit value.
ADC12_interrupt_sample16 == ADC12_interrupt_sample_from(Raw16Samples)

\* Mutant of ADC12_interrupt_w_last: last_published is not updated.
ADC12_interrupt_w_last_missing ==
    /\ isr_pc = "w_last"
    /\ isr_pc' = "w_value"
    /\ UNCHANGED <<cpu_vars, main_vars, hw_vars, published, publish_value,
                   last_published, iv, raw, tick_vars, hist_vars>>
    /\ UNCHANGED <<pwm_in, ccr_in, loop_hist, deliv_hist>>

\* last_published = raw;
ADC12_interrupt_w_last ==
    /\ isr_pc = "w_last"
    /\ last_published' = raw
    /\ isr_pc' = "w_value"
    /\ UNCHANGED <<cpu_vars, main_vars, hw_vars, published, publish_value, iv,
                   raw, tick_vars, hist_vars>>
    /\ UNCHANGED <<pwm_in, ccr_in, loop_hist, deliv_hist>>

\* Mutant of ADC12_interrupt_w_value: a value that is still pending is not
\* overwritten.
ADC12_interrupt_w_value_keeps_pending ==
    /\ isr_pc = "w_value"
    /\ publish_value' = IF published THEN raw ELSE publish_value
    /\ isr_pc' = "w_flag"
    /\ UNCHANGED <<cpu_vars, main_vars, hw_vars, published, last_published, iv,
                   raw, tick_vars, hist_vars>>
    /\ UNCHANGED <<pwm_in, ccr_in, loop_hist, deliv_hist>>

\* publish_value = raw;
ADC12_interrupt_w_value ==
    /\ isr_pc = "w_value"
    /\ publish_value' = raw
    /\ isr_pc' = "w_flag"
    /\ UNCHANGED <<cpu_vars, main_vars, hw_vars, published, last_published, iv,
                   raw, tick_vars, hist_vars>>
    /\ UNCHANGED <<pwm_in, ccr_in, loop_hist, deliv_hist>>

\* published = false;
ADC12_interrupt_w_flag ==
    /\ isr_pc = "w_flag"
    /\ published' = FALSE
    /\ isr_pc' = "wake"
    /\ h_isr_pub' = TRUE
    /\ n_pub' = n_pub + 1
    /\ unpolled' = TRUE
    /\ pubs_since_ret' = Min(pubs_since_ret + 1, 2)
    /\ copied_cur' = FALSE
    /\ returned_cur' = FALSE
    /\ UNCHANGED <<cpu_vars, main_vars, hw_vars, publish_value, last_published,
                   iv, raw, tick_vars, h_entry, n_true, pubs_at_call, poll_ret,
                   last_returned>>
    /\ UNCHANGED <<pwm_in, ccr_in, loop_hist, deliv_hist>>

\* Mutant of ADC12_interrupt_wake: the wake request is left out.
ADC12_interrupt_wake_missing ==
    /\ isr_pc = "wake"
    /\ isr_pc' = "reti"
    /\ UNCHANGED <<cpu_vars, main_vars, hw_vars, published, publish_value,
                   last_published, iv, raw, tick_vars, hist_vars>>
    /\ UNCHANGED <<pwm_in, ccr_in, loop_hist, deliv_hist>>

\* __bic_SR_register_on_exit(LPM0_bits);
ADC12_interrupt_wake ==
    /\ isr_pc = "wake"
    /\ saved_SR' = [saved_SR EXCEPT !.CPUOFF = FALSE]
    /\ isr_pc' = "reti"
    /\ UNCHANGED <<SR, main_vars, hw_vars, published, publish_value,
                   last_published, iv, raw, tick_vars, hist_vars>>
    /\ UNCHANGED <<pwm_in, ccr_in, loop_hist, deliv_hist>>

\* Return from the handler (RETI): SR is restored from the stack.
ADC12_interrupt_reti ==
    /\ isr_pc = "reti"
    /\ SR' = saved_SR
    /\ saved_SR' = NoSR
    /\ isr_pc' = "none"
    /\ iv' = 0
    /\ raw' = 0
    /\ h_entry' = NoEntry
    /\ h_isr_pub' = FALSE
    /\ UNCHANGED <<main_vars, hw_vars, published, publish_value, last_published,
                   tick_vars, n_pub, n_true, unpolled, pubs_since_ret,
                   pubs_at_call, poll_ret, last_returned, copied_cur,
                   returned_cur>>
    /\ n_wakes' = IF h_entry.CPUOFF /\ ~saved_SR.CPUOFF THEN n_wakes + 1
                  ELSE n_wakes
    /\ UNCHANGED <<pwm_in, ccr_in, n_duty, polls_since_sleep, deliv_hist>>

\* A foreground client of adc.c that calls poll_adc_value again without
\* sleeping in between (the calling pattern the function's contract describes:
\* "subsequent calls will return false until the ISR publishes again").
poll_adc_value_call ==
    /\ MainRuns /\ main_pc = "lpm0"
    /\ adc_value' = Undef
    /\ main_pc' = "poll_test"
    /\ UNCHANGED <<cpu_vars, hw_vars, adc_vars, tick_vars, hist_vars>>
    /\ UNCHANGED <<pwm_in, ccr_in, loop_hist, deliv_hist>>

\* ------------------------------------------------- timer.c: the periodic tick
ACLK_FREQ_HZ == 32768
TIMER_ID_DIV == 1
TIMER_EX_DIV == 1
TIMER_TOTAL_DIV == TIMER_ID_DIV * TIMER_EX_DIV
TIMER0_PERIOD_MS == 5

\* Mutant of Mul32: the product taken in 16-bit arithmetic, without the
\* (uint32_t) casts.
Mul16(a, b) == <<0, (a * b) % UINT16>>

\* A uint32_t value is held as two 16-bit halves <<hi, lo>>, value
\* hi * 2^16 + lo, so that the arithmetic keeps its 32-bit width.
\* (uint32_t)a * (uint32_t)b modulo 2^32, for a, b < 2^16.
Mul32(a, b) ==
    LET p1  == (a \div 256) * b
        p0  == (a % 256) * b
        low == (p1 % 256) * 256 + p0
    IN  <<(p1 \div 256 + low \div UINT16) % UINT16, low % UINT16>>

\* x / d in uint32_t, for 0 < d < 2^15.
Div32(x, d) ==
    LET qh == x[1] \div d
        r  == (x[1] % d) * UINT16 + x[2]
    IN  <<qh + (r \div d) \div UINT16, (r \div d) % UINT16>>

\* x - 1UL modulo 2^32.
Dec32(x) ==
    IF x[2] > 0 THEN <<x[1], x[2] - 1>>
    ELSE IF x[1] > 0 THEN <<x[1] - 1, UINT16 - 1>>
    ELSE <<UINT16 - 1, UINT16 - 1>>

\* The 32-bit value of TIMER_CCR0_FROM_MS(ms) before the cast to uint16_t.
TIMER_CCR0_FROM_MS_32(ms) ==
    Dec32(Div32(Mul32(ACLK_FREQ_HZ, ms), 1000 * TIMER_TOTAL_DIV))

\* #define TIMER_CCR0_FROM_MS(ms) ((uint16_t)(...))
TIMER_CCR0_FROM_MS(ms) == TIMER_CCR0_FROM_MS_32(ms)[2]

\* The foreground of the tick program executes.
TickRuns == ~tick_SR.CPUOFF /\ tick_isr_pc = "none"

\* timer_init() of timer.c
tick_timer_init ==
    /\ TickRuns /\ tick_pc = "timer_init"
    /\ tick_CCIE' = TRUE
    /\ tick_CCR0' = TIMER_CCR0_FROM_MS(TIMER0_PERIOD_MS)
    /\ tick_pc' = "timer_on"
    /\ UNCHANGED <<cpu_vars, main_vars, hw_vars, adc_vars, hist_vars, tick_hist, tick_flag,
                   tick_MC, tick_SR, tick_saved_SR, tick_isr_pc, tick_ret,
                   n_ticks, n_consumed>>
    /\ tick_ms' = TIMER0_PERIOD_MS
    /\ tick_CCR0_32' = TIMER_CCR0_FROM_MS_32(TIMER0_PERIOD_MS)
    /\ UNCHANGED <<pwm_in, loop_hist, deliv_hist>>

\* Periods, in milliseconds, that TIMER0_PERIOD_MS may be configured to; the
\* largest ones do not fit the 16-bit compare register.
TickPeriods == 1..2100

\* timer_init() of timer.c built with TIMER0_PERIOD_MS set to any of the
\* periods above.
tick_timer_init_period ==
    /\ TickRuns /\ tick_pc = "timer_init"
    /\ \E ms \in TickPeriods :
          /\ tick_ms' = ms
          /\ tick_CCR0_32' = TIMER_CCR0_FROM_MS_32(ms)
          /\ tick_CCR0' = TIMER_CCR0_FROM_MS(ms)
    /\ tick_CCIE' = TRUE
    /\ tick_pc' = "timer_on"
    /\ UNCHANGED <<cpu_vars, main_vars, hw_vars, adc_vars, hist_vars, tick_hist,
                   tick_flag, tick_MC, tick_SR, tick_saved_SR, tick_isr_pc,
                   tick_ret, n_ticks, n_consumed, pwm_in, loop_hist,
                   deliv_hist>>

\* timer_on()
timer_on ==
    /\ TickRuns /\ tick_pc = "timer_on"
    /\ tick_MC' = TRUE
    /\ tick_pc' = "gie"
    /\ UNCHANGED <<cpu_vars, main_vars, hw_vars, adc_vars, hist_vars, tick_hist, tick_flag,
                   tick_CCR0, tick_CCIE, tick_SR, tick_saved_SR, tick_isr_pc,
                   tick_ret, n_ticks, n_consumed>>
    /\ UNCHANGED <<pwm_in, ccr_in, loop_hist, deliv_hist>>

\* The startup sequence enables the interrupts globally after the
\* initialisation.
tick_enable_interrupts ==
    /\ TickRuns /\ tick_pc = "gie"
    /\ tick_SR' = [tick_SR EXCEPT !.GIE = TRUE]
    /\ tick_pc' = "run"
    /\ UNCHANGED <<cpu_vars, main_vars, hw_vars, adc_vars, hist_vars, tick_hist, tick_flag,
                   tick_CCR0, tick_CCIE, tick_MC, tick_saved_SR, tick_isr_pc,
                   tick_ret, n_ticks, n_consumed>>
    /\ UNCHANGED <<pwm_in, ccr_in, loop_hist, deliv_hist>>

\* The control loop enters low-power idle (LPM0) with interrupts enabled.
tick_enter_lpm0 ==
    /\ TickRuns /\ tick_pc = "run"
    /\ tick_SR' = [GIE |-> TRUE, CPUOFF |-> TRUE]
    /\ UNCHANGED <<cpu_vars, main_vars, hw_vars, adc_vars, hist_vars, tick_hist, tick_flag,
                   tick_CCR0, tick_CCIE, tick_MC, tick_saved_SR, tick_isr_pc,
                   tick_pc, tick_ret, n_ticks, n_consumed>>
    /\ UNCHANGED <<pwm_in, ccr_in, loop_hist, deliv_hist>>

\* The control loop calls consume_tick().
tick_call_consume ==
    /\ TickRuns /\ tick_pc = "run"
    /\ tick_pc' = "ct_test"
    /\ ticks_at_call' = ticks_since_ret
    /\ UNCHANGED <<ticks_since_ret, tick_since_true>>
    /\ UNCHANGED <<cpu_vars, main_vars, hw_vars, adc_vars, hist_vars, tick_flag,
                   tick_CCR0, tick_CCIE, tick_MC, tick_SR, tick_saved_SR,
                   tick_isr_pc, tick_ret, n_ticks, n_consumed>>
    /\ UNCHANGED <<pwm_in, ccr_in, loop_hist, deliv_hist>>

\* consume_tick: if (tick_flag) ... else return false;
consume_tick_test ==
    /\ TickRuns /\ tick_pc = "ct_test"
    /\ IF tick_flag
         THEN /\ tick_pc' = "ct_clear"
              /\ UNCHANGED <<tick_ret, ticks_since_ret>>
         ELSE /\ tick_pc' = "run"
              /\ tick_ret' = "false"
              /\ ticks_since_ret' = 0
    /\ UNCHANGED <<ticks_at_call, tick_since_true>>
    /\ UNCHANGED <<cpu_vars, main_vars, hw_vars, adc_vars, hist_vars, tick_flag,
                   tick_CCR0, tick_CCIE, tick_MC, tick_SR, tick_saved_SR,
                   tick_isr_pc, n_ticks, n_consumed>>
    /\ UNCHANGED <<pwm_in, ccr_in, loop_hist, deliv_hist>>

\* Mutant of consume_tick_clear: the flag is not cleared.
consume_tick_keeps_flag ==
    /\ TickRuns /\ tick_pc = "ct_clear"
    /\ tick_ret' = "true"
    /\ n_consumed' = n_consumed + 1
    /\ ticks_since_ret' = 0
    /\ tick_since_true' = FALSE
    /\ tick_pc' = "run"
    /\ UNCHANGED <<cpu_vars, main_vars, hw_vars, adc_vars, hist_vars, ticks_at_call,
                   tick_flag, tick_CCR0, tick_CCIE, tick_MC, tick_SR,
                   tick_saved_SR, tick_isr_pc, n_ticks>>
    /\ UNCHANGED <<pwm_in, ccr_in, loop_hist, deliv_hist>>

\* tick_flag = false; return true;
consume_tick_clear ==
    /\ TickRuns /\ tick_pc = "ct_clear"
    /\ tick_flag' = FALSE
    /\ tick_ret' = "true"
    /\ n_consumed' = n_consumed + 1
    /\ ticks_since_ret' = 0
    /\ tick_since_true' = FALSE
    /\ tick_pc' = "run"
    /\ UNCHANGED <<cpu_vars, main_vars, hw_vars, adc_vars, hist_vars, ticks_at_call, tick_CCR0,
                   tick_CCIE, tick_MC, tick_SR, tick_saved_SR, tick_isr_pc,
                   n_ticks>>
    /\ UNCHANGED <<pwm_in, ccr_in, loop_hist, deliv_hist>>

\* Interrupt entry of timerA0Elapsed: the TA0CCR0 compare interrupt is
\* accepted when GIE and CCIE are set and the timer runs. The CPU stacks SR
\* and clears it.
timerA0Elapsed_entry ==
    /\ tick_isr_pc = "none"
    /\ tick_SR.GIE /\ tick_CCIE /\ tick_MC
    /\ n_ticks < MaxTicks
    /\ tick_saved_SR' = tick_SR
    /\ tick_SR' = NoSR
    /\ tick_isr_pc' = "body"
    /\ n_ticks' = n_ticks + 1
    /\ UNCHANGED <<cpu_vars, main_vars, hw_vars, adc_vars, hist_vars, tick_hist, tick_flag,
                   tick_CCR0, tick_CCIE, tick_MC, tick_pc, tick_ret, n_consumed>>
    /\ UNCHANGED <<pwm_in, ccr_in, loop_hist, deliv_hist>>

\* tick_flag = true;
timerA0Elapsed_body ==
    /\ tick_isr_pc = "body"
    /\ tick_flag' = TRUE
    /\ ticks_since_ret' = Min(ticks_since_ret + 1, 2)
    /\ tick_since_true' = TRUE
    /\ tick_isr_pc' = "reti"
    /\ UNCHANGED <<cpu_vars, main_vars, hw_vars, adc_vars, hist_vars, ticks_at_call, tick_CCR0,
                   tick_CCIE, tick_MC, tick_SR, tick_saved_SR, tick_pc, tick_ret,
                   n_ticks, n_consumed>>
    /\ UNCHANGED <<pwm_in, ccr_in, loop_hist, deliv_hist>>

\* Return from timerA0Elapsed (RETI): SR is restored from the stack.
timerA0Elapsed_reti ==
    /\ tick_isr_pc = "reti"
    /\ tick_SR' = tick_saved_SR
    /\ tick_saved_SR' = NoSR
    /\ tick_isr_pc' = "none"
    /\ UNCHANGED <<cpu_vars, main_vars, hw_vars, adc_vars, hist_vars, tick_hist, tick_flag,
                   tick_CCR0, tick_CCIE, tick_MC, tick_pc, tick_ret, n_ticks,
                   n_consumed>>
    /\ UNCHANGED <<pwm_in, ccr_in, loop_hist, deliv_hist>>

\* ------------------------------------------------------------ specifications
Startup ==
    \/ main_wdt \/ pin_init \/ timer_init \/ main_set_duty_initial
    \/ uart_init \/ adc_init \/ main_puts \/ main_gie

Poll ==
    \/ poll_adc_value_test \/ poll_adc_value_copy \/ poll_adc_value_mark

Main ==
    \/ Startup
    \/ main_enter_lpm0
    \/ Poll
    \/ main_set_duty \/ main_uart

ADC12_interrupt_run ==
    \/ ADC12_interrupt_iv \/ ADC12_interrupt_sample
    \/ ADC12_interrupt_w_last \/ ADC12_interrupt_w_value
    \/ ADC12_interrupt_w_flag \/ ADC12_interrupt_wake \/ ADC12_interrupt_reti

ADC12_interrupt == ADC12_interrupt_entry \/ ADC12_interrupt_run

\* The dimmer firmware: main() and the ADC12 interrupt.
Next == Main \/ ADC12_interrupt

Spec == Init /\ [][Next]_vars

\* The dimmer firmware with the scheduling the CPU guarantees: main executes
\* its next statement whenever the CPU is on, and a handler that was entered
\* runs to its return. Nothing obliges the converter to deliver a further
\* qualifying sample.
FairSpec == Spec /\ WF_vars(Main) /\ WF_vars(ADC12_interrupt_run)

\* adc.c with a client that polls at arbitrary times, never sleeping.
NextAdc ==
    \/ Startup
    \/ poll_adc_value_call
    \/ Poll
    \/ main_set_duty \/ main_uart
    \/ ADC12_interrupt

SpecAdc == Init /\ [][NextAdc]_vars

\* The dimmer firmware with a converter register that may hold any 16-bit
\* value.
Next16 ==
    \/ Main
    \/ ADC12_interrupt_entry
    \/ ADC12_interrupt_iv \/ ADC12_interrupt_sample16
    \/ ADC12_interrupt_w_last \/ ADC12_interrupt_w_value
    \/ ADC12_interrupt_w_flag \/ ADC12_interrupt_wake \/ ADC12_interrupt_reti

Spec16 == Init /\ [][Next16]_vars

\* The tick program: timer.c and a foreground that idles and calls
\* consume_tick.
NextTick ==
    \/ tick_timer_init \/ timer_on \/ tick_enable_interrupts
    \/ tick_enter_lpm0 \/ tick_call_consume
    \/ consume_tick_test \/ consume_tick_clear
    \/ timerA0Elapsed_entry \/ timerA0Elapsed_body \/ timerA0Elapsed_reti

SpecTick == Init /\ [][NextTick]_vars

\* pwm.c alone: the timer is configured, then set_duty_cycle is called any
\* number of times with any of the fractions.
NextPwm ==
    \/ main_wdt \/ pin_init \/ timer_init
    \/ set_duty_cycle_call

SpecPwm == Init /\ [][NextPwm]_vars

\* timer.c configured with any tick period and started.
NextCcr == tick_timer_init_period \/ timer_on

SpecCcr == Init /\ [][NextCcr]_vars

\* ------------------------------------------------------------------ claims
Abs(x) == IF x < 0 THEN -x ELSE x

\* The running handler is returning (RETI) in this step.
ADC12_returns == isr_pc = "reti" /\ isr_pc' = "none"

\* C1: the processor is never asleep in LPM0 while a value that the handler
\* published has not been polled: between a publication and the next entry
\* into LPM0, main calls poll_adc_value at least once.
C1_NoSleepWithUnpolledValue ==
    (SR.CPUOFF /\ isr_pc = "none") => ~unpolled

\* C2: under weak fairness of the main loop, every published value (the k-th
\* publication, for every k) is eventually returned by poll_adc_value or
\* overwritten by a newer publication.
C2_PublishedEventuallyConsumed ==
    \A k \in 1..MaxPub : (n_pub = k) ~> (returned_cur \/ n_pub > k)

\* C3: whenever the mailbox is not pending and no poll is in progress (and no
\* handler is running), the value last returned by poll_adc_value is the most
\* recently published value: no published value is marked consumed without
\* having been returned.
C3_ConsumedMeansReturned ==
    (published /\ isr_pc = "none" /\ main_pc \notin {"poll_copy", "poll_mark"})
        => last_returned = last_published

\* C4: a handler execution on the configured channel publishes (publish_value
\* and last_published become raw, the mailbox is marked pending) if and only
\* if the mathematical |raw - last_published| exceeds ADC_CHANGE_THRESHHOLD;
\* the 16-bit diff equals the mathematical difference (no wrap);
\* last_published is 0 until the first publication and is left alone by a
\* handler that does not publish.
C4_PublishIffAbsDiffExceeds ==
    /\ (n_pub = 0 /\ isr_pc \in {"none", "iv", "sample"}) => last_published = 0
    /\ (isr_pc = "reti" /\ iv = ADC12IV_ADC12IFG0) =>
         /\ AbsDiff16(raw, h_entry.last_published)
              = Abs(raw - h_entry.last_published)
         /\ h_isr_pub <=>
              Abs(raw - h_entry.last_published) > ADC_CHANGE_THRESHHOLD
         /\ h_isr_pub =>
              publish_value = raw /\ last_published = raw /\ ~published
         /\ ~h_isr_pub => last_published = h_entry.last_published

\* C4 witness: a handler has published a sample below last_published, at the
\* two ends of the 16-bit range.
C4_Witness ==
    /\ isr_pc = "reti" /\ iv = ADC12IV_ADC12IFG0 /\ h_isr_pub
    /\ raw = 0 /\ h_entry.last_published = 65535

\* C5: a handler execution that does not publish (the difference is at most
\* the threshold, or ADC12IV is not the MEM0 code) returns with
\* last_published, publish_value and published as they were on entry and with
\* the LPM0 bit as it was: a sleeping processor sleeps again.
C5_NoPublishLeavesStateAndSleep ==
    [][(/\ ADC12_returns
        /\ \/ iv # ADC12IV_ADC12IFG0
           \/ Abs(raw - h_entry.last_published) <= ADC_CHANGE_THRESHHOLD)
       => /\ last_published' = h_entry.last_published
          /\ publish_value' = h_entry.publish_value
          /\ published' = h_entry.published
          /\ SR'.CPUOFF = h_entry.CPUOFF]_vars

\* C5 witness: a handler that interrupted LPM0 and read a sample within the
\* threshold is about to return, the stacked LPM0 bit still set.
C5_Witness ==
    /\ isr_pc = "reti" /\ iv = ADC12IV_ADC12IFG0 /\ ~h_isr_pub
    /\ raw # h_entry.last_published
    /\ h_entry.CPUOFF /\ saved_SR.CPUOFF

\* C6: when two or more values were published since poll_adc_value last
\* returned, a call finds the mailbox pending and, with no publication during
\* the call, returns the most recent one; the call after a true return, with
\* no publication in between, returns false and writes nothing.
C6_SingleSlotOverwrite ==
    [][/\ (main_pc = "poll_test" /\ main_pc' # "poll_test" /\ pubs_since_ret = 2)
            => main_pc' = "poll_copy"
       /\ (main_pc = "poll_mark" /\ main_pc' = "duty" /\ pubs_at_call = 2
           /\ ~unpolled)
            => (poll_ret' = "true" /\ last_returned' = last_published
                /\ published')
       /\ (main_pc = "poll_test" /\ main_pc' # "poll_test" /\ poll_ret = "true"
           /\ pubs_since_ret = 0)
            => (poll_ret' = "false" /\ adc_value' = Undef)]_vars

\* C6 witness: a poll that was called with two publications outstanding has
\* returned the most recent one.
C6_Witness ==
    /\ main_pc = "duty" /\ pubs_at_call = 2 /\ ~unpolled /\ n_pub >= 2
    /\ poll_ret = "true" /\ last_returned = last_published

\* C7: once the most recent publication has been returned, a call of
\* poll_adc_value returns false; and the number of true returns never exceeds
\* the number of publications.
C7_AtMostOnceDelivery ==
    [][/\ (main_pc = "poll_test" /\ main_pc' # "poll_test" /\ returned_cur)
            => poll_ret' = "false"
       /\ n_true' <= n_pub']_vars

\* C8: before the handler has published anything, the mailbox is empty: a
\* call of poll_adc_value does not pass the pending test, does not return true
\* and does not write *external_value.
C8_EmptyAtStartup ==
    (n_pub = 0) =>
        /\ main_pc \notin {"poll_copy", "poll_mark"}
        /\ poll_ret # "true"
        /\ adc_value = Undef

\* C9: a handler execution that publishes issues the wake request in that
\* same execution, after the mailbox is written and before it returns; if it
\* interrupted LPM0, then after its return the CPU is on, main stands before
\* its call of poll_adc_value with the mailbox pending, and that poll passes
\* the pending test and returns true.
C9_PublishWakesInSameHandler ==
    [][/\ (isr_pc = "wake") =>
            (h_isr_pub /\ ~published /\ publish_value = raw)
       /\ (isr_pc = "reti" /\ h_isr_pub) => ~saved_SR.CPUOFF
       /\ (ADC12_returns /\ h_isr_pub /\ h_entry.CPUOFF) =>
            (~SR'.CPUOFF /\ main_pc' = "poll_test" /\ ~published')
       /\ (main_pc = "poll_test" /\ ~published) =>
            \/ main_pc' = "poll_test" /\ ~published'
            \/ main_pc' = "poll_copy"
       /\ (main_pc = "poll_copy") => main_pc' \in {"poll_copy", "poll_mark"}
       /\ (main_pc = "poll_mark" /\ main_pc' # "poll_mark") =>
            poll_ret' = "true"]_vars

\* C9 witness: a handler that interrupted LPM0 has published and cleared the
\* stacked LPM0 bit, and is about to return.
C9_Witness ==
    /\ isr_pc = "reti" /\ h_isr_pub /\ h_entry.CPUOFF /\ ~saved_SR.CPUOFF
    /\ main_pc = "poll_test"

\* C10: every execution of the tick handler sets the tick flag and issues a
\* wake request: after its return the processor is not in LPM0.
C10_TickSetsFlagAndWakes ==
    [][(tick_isr_pc = "reti" /\ tick_isr_pc' = "none")
        => (tick_flag' /\ ~tick_SR'.CPUOFF)]_vars

\* C11: a call of consume_tick made after one or more ticks have fired since
\* it last returned returns true and clears tick_flag; a call that follows a
\* true return with no tick in between returns false; consume_tick does not
\* return true when no tick has fired since its last true return; the number
\* of true returns never exceeds the number of tick interrupts.
C11_TickCoalescing ==
    [][/\ (tick_pc = "ct_test" /\ tick_pc' # "ct_test" /\ ticks_since_ret >= 1)
            => tick_pc' = "ct_clear"
       /\ (tick_pc = "ct_clear" /\ tick_pc' # "ct_clear")
            => (tick_ret' = "true" /\ ~tick_flag')
       /\ (tick_pc = "ct_test" /\ tick_pc' # "ct_test" /\ ~tick_since_true)
            => (tick_pc' = "run" /\ tick_ret' = "false")
       /\ n_consumed' <= n_ticks']_vars

\* C11 witness: a call of consume_tick made after two ticks has returned true
\* once, and the flag is clear.
C11_Witness ==
    /\ tick_pc = "run" /\ tick_ret = "true" /\ ticks_at_call = 2
    /\ n_ticks >= 2 /\ n_consumed = 1 /\ ~tick_flag /\ tick_isr_pc = "none"

\* n / d rounded to the nearest integer, halves upwards (n >= 0, d > 0).
RoundNearest(n, d) == (2 * n + d) \div (2 * d)

\* C12: for every raw sample r in 0..4095 forwarded as r / 4095,
\* set_duty_cycle writes TIMER_CCR0_VALUE * r / 4095 rounded to the nearest
\* integer (r = 1150 gives 90). The code converts with truncation and writes
\* 89.
C12_RoundsToNearest ==
    (duty_den = ADC_FULL_SCALE)
        => TA0CCR1 = RoundNearest(TIMER_CCR0_VALUE * duty_num, ADC_FULL_SCALE)

\* C13: a fraction below 0.0 is treated exactly as 0.0 and a fraction above
\* 1.0 exactly as 1.0: the compare value written is the one written for the
\* clamped fraction.
C13_ClampedToUnitInterval ==
    /\ (duty_den > 0 /\ duty_num < 0) => TA0CCR1 = set_duty_cycle(0, 1)
    /\ (duty_den > 0 /\ duty_num > duty_den) => TA0CCR1 = set_duty_cycle(1, 1)
    /\ set_duty_cycle(0, 1) = 0
    /\ set_duty_cycle(1, 1) = TIMER_CCR0_VALUE

\* set_duty_cycle(1.7f) has written the compare value of 1.0.
C13_Witness ==
    /\ main_pc = "set_duty" /\ duty_num = 17 /\ duty_den = 10
    /\ TA0CCR1 = TIMER_CCR0_VALUE

\* C14: set_duty_cycle(0.0) writes 0, set_duty_cycle(1.0) writes the
\* configured period 320 and set_duty_cycle(0.5) writes 160; hence raw 0
\* gives 0 and raw 4095 gives 320.
C14_Endpoints ==
    /\ (duty_den > 0 /\ duty_num = 0) => TA0CCR1 = 0
    /\ (duty_den > 0 /\ duty_num = duty_den)
          => (TA0CCR1 = TA0CCR0 /\ TA0CCR1 = 320)
    /\ (duty_den > 0 /\ 2 * duty_num = duty_den) => TA0CCR1 = 160

\* The control loop's fraction for raw 4095 has written the full period.
C14_Witness ==
    /\ main_pc = "set_duty" /\ duty_num = ADC_FULL_SCALE
    /\ duty_den = ADC_FULL_SCALE /\ TA0CCR1 = 320 /\ TA0CCR0 = 320

\* C19: once timer_init has run, TA0CCR1 is between 0 and TIMER_CCR0_VALUE
\* in every state, whatever fractions set_duty_cycle is called with.
C19_CompareWithinPeriod ==
    (main_pc \notin {"wdt", "pin_init", "timer_init"})
        => (TA0CCR1 \in 0..TIMER_CCR0_VALUE /\ TA0CCR0 = TIMER_CCR0_VALUE)

\* set_duty_cycle(-0.3f) has been called after timer_init.
C19_Witness ==
    /\ main_pc = "set_duty" /\ duty_num = -3 /\ duty_den = 10
    /\ TA0CCR1 = 0 /\ TA0CCR0 = TIMER_CCR0_VALUE

\* C15: the tick compare value is trunc(ACLK_FREQ_HZ * ms / (1000 * divider))
\* - 1 computed in 32 bits without overflow; 5 ms gives 162, and for every ms
\* in 1..2000 the 32-bit value fits 16 bits, so the cast to uint16_t keeps it.
C15_TickCompareValue ==
    (tick_ms \in 1..2000) =>
        LET product == ACLK_FREQ_HZ * tick_ms
            exact   == product \div (1000 * TIMER_TOTAL_DIV) - 1
        IN  /\ Mul32(ACLK_FREQ_HZ, tick_ms)
                  = <<product \div UINT16, product % UINT16>>
            /\ tick_CCR0_32 = <<0, exact>>
            /\ tick_CCR0 = exact
            /\ (tick_ms = 5) => tick_CCR0 = 162

\* The longest period of the range was configured: the compare value is the
\* largest 16-bit number.
C15_Witness ==
    /\ tick_pc = "timer_on" /\ tick_ms = 2000
    /\ tick_CCR0 = 65535 /\ tick_CCR0_32 = <<0, 65535>>

\* The statements of main before the control loop.
StartupPcs ==
    {"wdt", "pin_init", "timer_init", "set_duty", "uart_init", "adc_init",
     "puts", "gie"}

\* C16: interrupts are enabled, and ADC12_interrupt executes, only once the
\* watchdog is stopped and timer_init, uart_init and adc_init have returned.
C16_InterruptsAfterInit ==
    (SR.GIE \/ saved_SR.GIE \/ isr_pc # "none")
        => /\ main_pc \notin StartupPcs
           /\ wdt_held
           /\ TA0CCR0 = TIMER_CCR0_VALUE
           /\ uart_ready
           /\ ADC12IE0

\* The first execution of ADC12_interrupt, right after interrupts were
\* enabled.
C16_Witness ==
    /\ isr_pc = "iv" /\ n_pub = 0 /\ main_pc = "lpm0"
    /\ wdt_held /\ uart_ready /\ ADC12IE0

\* C18: whenever ADC12_interrupt is not executing, publish_value equals
\* last_published.
C18_MailboxEqualsLastPublished ==
    (isr_pc = "none") => publish_value = last_published

\* A value has been published and the handler has returned.
C18_Witness ==
    /\ isr_pc = "none" /\ n_pub >= 1
    /\ publish_value = 4095 /\ last_published = 4095

\* C17: the control loop calls poll_adc_value once per wake. After a return
\* of true with value r it calls set_duty_cycle(r / 4095), then sends r in
\* decimal over the UART, then re-enters LPM0; after a return of false it
\* re-enters LPM0 with TA0CCR1 unchanged. The loop never makes more
\* set_duty_cycle calls than there were wakes.
C17_OnePollPerWake ==
    [][/\ (main_pc = "lpm0" /\ main_pc' # "lpm0")
            => /\ main_pc' = "poll_test"
               /\ polls_since_sleep = IF poll_ret = "none" THEN 0 ELSE 1
       /\ (main_pc \in {"poll_copy", "poll_mark", "duty", "uart"})
            => polls_since_sleep = 1
       /\ (main_pc = "poll_mark" /\ main_pc' # "poll_mark")
            => (poll_ret' = "true" /\ main_pc' = "duty")
       /\ (main_pc = "duty" /\ main_pc' # "duty")
            => /\ duty_num' = last_returned /\ duty_den' = 4095
               /\ TA0CCR1' = (320 * last_returned) \div 4095
               /\ main_pc' = "uart"
       /\ (main_pc = "uart" /\ main_pc' # "uart")
            => /\ uart_tx' = Digits(last_returned)
               /\ main_pc' = "lpm0"
       /\ (main_pc = "poll_test" /\ main_pc' = "lpm0")
            => (poll_ret' = "false" /\ TA0CCR1' = TA0CCR1)
       /\ n_duty' <= n_wakes']_vars

\* The loop was woken twice, polled once each time and has forwarded and
\* printed the second value.
C17_Witness ==
    /\ main_pc = "lpm0" /\ poll_ret = "true" /\ polls_since_sleep = 1
    /\ n_wakes = 2 /\ n_duty = 2
    /\ last_returned = 150 /\ duty_num = 150 /\ TA0CCR1 = 11
    /\ uart_tx = <<"1", "5", "0">>

\* C20 as stated: any two values returned by consecutive successful calls of
\* poll_adc_value differ by more than ADC_CHANGE_THRESHHOLD, also when a
\* publication in between was overwritten before it was consumed.
C20_ConsecutiveDeliveriesDiffer ==
    (prev_returned # Undef /\ last_returned # Undef)
        => Abs(last_returned - prev_returned) > ADC_CHANGE_THRESHHOLD

\* C20 amended: two values returned by consecutive successful calls differ by
\* more than ADC_CHANGE_THRESHHOLD when the second is the publication that
\* directly follows the first, that is, when no publication in between was
\* overwritten.
C20_ConsecutivePublicationsDiffer ==
    (prev_returned # Undef /\ last_returned # Undef
        /\ ret_seq = prev_ret_seq + 1)
        => Abs(last_returned - prev_returned) > ADC_CHANGE_THRESHHOLD

\* Two successive publications were both delivered.
C20_Witness ==
    /\ poll_ret = "true" /\ main_pc = "duty"
    /\ prev_returned = 101 /\ prev_ret_seq = 1
    /\ last_returned = 4095 /\ ret_seq = 2

====
